---- MODULE Spec2Model ----
(***************************************************************************)
(* Atlas Travel Assistant: the conversation loop (agents/travel_agent.py), *)
(* the weather tool (tools/weather.py), the settings cache (config.py) and *)
(* the search tool (tools/search.py), the model handle (llm/router.py) and *)
(* the domain models (domain/models.py).                                   *)
(*                                                                         *)
(* The specifications share the variables:                                 *)
(*   Spec          one invoke_agent call                                   *)
(*   SpecWeather   calls of get_weather under changing settings            *)
(*   SpecItinerary construction and mutation of an Itinerary               *)
(*   SpecDomain    construction and mutation of the other domain models    *)
(*   SpecRoundTrip model_dump and model_validate of the domain models      *)
(*   SpecLlm       calls of get_llm from several threads                   *)
(*   SpecDeadline  a run whose model call does not return                  *)
(*   SpecSearch    calls of search_destinations                            *)
(*   SpecRuns      several invoke_agent calls at once                      *)
(***************************************************************************)
EXTENDS Integers, Sequences, FiniteSets, TLC

VARIABLES
    pc,             \* position of the invoke_agent call
    llm,            \* the llm argument: which chat model drives the run
    chat_history,   \* the chat_history argument
    user_message,   \* the user_message argument
    messages,       \* AgentState["messages"], the graph's only channel
    nextUuid,       \* number of uuid4 ids handed out by add_messages
    step,           \* supersteps executed by graph.invoke
    modelCalls,     \* calls of llm_with_tools.invoke so far
    firstInput,     \* the list handed to the first model call
    responses,      \* the messages the model returned, as it returned them
    pending,        \* tool calls of the batch the tools node is running
    outputs,        \* outputs[i]: <<>> while call i runs, <<msg>> after
    order,          \* indexes of the batch in completion order
    toolRuns,       \* tool-call executions (ToolNode._run_one) so far
    returned,       \* <<>> or <<the message invoke_agent returned>>
    error,          \* "" or the exception that reached the caller
    environ,        \* os.environ: the two keys the settings read
    settingsCache,  \* lru_cache of get_settings: <<>> or <<Settings>>
    weatherCall,    \* <<>> or <<the last direct call of get_weather>>
    obj,            \* <<>> or <<a live instance of a plain domain model>>
    itin,           \* <<>> or <<the live Itinerary instance>>
    lastOp,         \* outcome of the last domain-model operation
    entity,         \* <<>> or <<the domain entity under round trip>>
    dumped,         \* <<>> or <<its model_dump, with the mode>>
    rebuilt,        \* <<>> or <<the outcome of model_validate on the dump>>
    llmCache,       \* lru_cache of get_llm: <<>> or <<handle>>
    callers,        \* callers[c]: position and result of a get_llm() call
    built,          \* one entry per ChatOpenAI handle constructed so far
    epoch,          \* calls of get_llm.cache_clear() so far
    now,            \* time elapsed while a call of the run is in flight
    deadline,       \* 0 or the time the caller allows a call to be in flight
    searchCall,     \* <<>> or <<the last direct call of search_destinations>>
    runs            \* runs[r]: the state of one of several invoke_agent calls

loopVars == <<pc, llm, chat_history, user_message, messages, nextUuid, step,
              modelCalls, firstInput, responses, pending, outputs, order,
              toolRuns, returned, error>>
cfgVars == <<environ, settingsCache, weatherCall>>
domVars == <<obj, itin, lastOp>>
rtVars == <<entity, dumped, rebuilt>>
llmVars == <<llmCache, callers, built, epoch>>
dlVars == <<now, deadline>>
extVars == <<entity, dumped, rebuilt, llmCache, callers, built, epoch, now,
             deadline, searchCall, runs>>
vars == <<pc, llm, chat_history, user_message, messages, nextUuid, step,
          modelCalls, firstInput, responses, pending, outputs, order, toolRuns,
          returned, error, environ, settingsCache, weatherCall, obj, itin,
          lastOp, entity, dumped, rebuilt, llmCache, callers, built, epoch,
          now, deadline, searchCall, runs>>

(***************************************************************************)
(* Bounds of the model.                                                    *)
(***************************************************************************)
MaxHistory == 2      \* longest chat_history explored
MaxToolCalls == 2    \* most tool calls in one assistant message
MaxModelCalls == 2   \* model calls explored with the echo and tools models
MaxDate == 3         \* dates are the days 1..MaxDate
MaxDays == 1         \* most days held by an itinerary
MaxNotes == 2        \* most notes attached to an activity
MaxCallers == 2      \* threads calling get_llm()
MaxClears == 1       \* calls of get_llm.cache_clear() explored
MaxTime == 3         \* longest time a blocked call is followed
MaxResults == 3      \* largest max_results passed to search_destinations
MaxRuns == 2         \* invoke_agent calls executing at once

(***************************************************************************)
(* Python values: dicts are sequences of <<key, value>> in insertion       *)
(* order, values are tagged so that None, strings and ints stay apart.     *)
(***************************************************************************)
VStr(s) == [kind |-> "str", s |-> s, n |-> 0]
VInt(n) == [kind |-> "int", s |-> "", n |-> n]
VNone == [kind |-> "None", s |-> "", n |-> 0]

Keys(d) == {d[i][1] : i \in 1..Len(d)}
Get(d, k) == d[CHOOSE i \in 1..Len(d) : d[i][1] = k][2]

\* json.dumps of a value, of a dict and of a list of dicts
DumpValue(v) ==
    IF v.kind = "str" THEN "\"" \o v.s \o "\""
    ELSE IF v.kind = "int" THEN ToString(v.n)
    ELSE "null"

RECURSIVE DumpItems(_)
DumpItems(d) ==
    IF d = <<>> THEN ""
    ELSE "\"" \o Head(d)[1] \o "\": " \o DumpValue(Head(d)[2])
         \o (IF Tail(d) = <<>> THEN "" ELSE ", " \o DumpItems(Tail(d)))

DumpDict(d) == "{" \o DumpItems(d) \o "}"

RECURSIVE DumpDicts(_)
DumpDicts(l) ==
    IF l = <<>> THEN ""
    ELSE DumpDict(Head(l))
         \o (IF Tail(l) = <<>> THEN "" ELSE ", " \o DumpDicts(Tail(l)))

DumpList(l) == "[" \o DumpDicts(l) \o "]"

(***************************************************************************)
(* Settings (config.py).  The environment holds the required               *)
(* OPENROUTER_API_KEY and the optional ATLAS_WEATHER_API_KEY; Unset stands *)
(* for a variable that is not set.  The process cannot start without the   *)
(* required key (config.py line 88 builds the settings on import) and      *)
(* nothing removes it afterwards.                                          *)
(***************************************************************************)
Unset == "<unset>"
WeatherKeys == {Unset, "", "fake-key"}

\* Settings(): the required field fails validation when its variable is
\* not set, the optional one falls back to its default ""
SettingsValid(env) == env.OPENROUTER_API_KEY # Unset
Settings(env) ==
    [openrouter_api_key |-> env.OPENROUTER_API_KEY,
     atlas_weather_api_key |-> IF env.ATLAS_WEATHER_API_KEY = Unset THEN ""
                               ELSE env.ATLAS_WEATHER_API_KEY]

\* get_settings() under lru_cache(maxsize=1): the cached instance, or one
\* built from the environment on a miss; a failed construction raises and
\* caches nothing
get_settings_raises == settingsCache = <<>> /\ ~SettingsValid(environ)
get_settings_value == IF settingsCache = <<>> THEN Settings(environ)
                      ELSE settingsCache[1]
get_settings_cache == IF get_settings_raises THEN <<>>
                      ELSE <<get_settings_value>>

(***************************************************************************)
(* The tools (tools/weather.py, tools/search.py, tools/__init__.py).       *)
(***************************************************************************)
Cities == {"Kyoto", "Tokyo", "Sao Paulo", ""}
DateStrings == {"2025-04-01", "2025-04-05", "soon"}

\* get_weather with the guard on the key inverted
get_weather_keyflip(city, date, cfg) ==
    IF cfg.atlas_weather_api_key # "" THEN
        << <<"city", VStr(city)>>, <<"date", VStr(date)>>,
           <<"error", VStr("Weather API key not configured - skipping forecast.")>> >>
    ELSE
        << <<"city", VStr(city)>>, <<"date", VStr(date)>>,
           <<"temp_high_c", VNone>>, <<"temp_low_c", VNone>>,
           <<"conditions", VStr("unknown")>>,
           <<"precipitation_pct", VNone>>,
           <<"note", VStr("Weather integration pending - placeholder data.")>> >>

\* the body of get_weather, given the settings get_settings() returned
get_weather(city, date, cfg) ==
    IF cfg.atlas_weather_api_key = "" THEN
        << <<"city", VStr(city)>>, <<"date", VStr(date)>>,
           <<"error", VStr("Weather API key not configured - skipping forecast.")>> >>
    ELSE
        << <<"city", VStr(city)>>, <<"date", VStr(date)>>,
           <<"temp_high_c", VNone>>, <<"temp_low_c", VNone>>,
           <<"conditions", VStr("unknown")>>,
           <<"precipitation_pct", VNone>>,
           <<"note", VStr("Weather integration pending - placeholder data.")>> >>

\* str.title() on the queries the model explores
Title(q) ==
    CASE q = "kyoto" -> "Kyoto"
      [] q = "temples in Kyoto" -> "Temples In Kyoto"
      [] q = "beaches in Bali" -> "Beaches In Bali"
      [] q = "" -> ""
      [] OTHER -> "Beach Towns"

\* the body of search_destinations
search_destinations(query, max_results) ==
    << << <<"name", VStr(Title(query))>>,
          <<"country", VStr("Unknown")>>,
          <<"description", VStr("Search results for '" \o query
                                \o "' - integration pending.")>>,
          <<"coordinates", VNone>>,
          <<"note", VStr("Destination search integration pending - placeholder data.")>>
       >> >>

ALL_TOOLS == <<"search_destinations", "get_weather">>
ToolNames == {ALL_TOOLS[i] : i \in 1..Len(ALL_TOOLS)}

\* argument schema the @tool decorator derives from each signature
RequiredArgs(name) == IF name = "get_weather" THEN {"city", "date"}
                      ELSE {"query"}
ArgsValid(name, args) == RequiredArgs(name) \subseteq Keys(args)

(***************************************************************************)
(* Messages (langchain_core.messages as used by travel_agent.py).          *)
(***************************************************************************)
NoId == <<"none", 0>>          \* id=None
CallerId(k) == <<"caller", k>> \* an id the caller or the model supplied
Uuid(n) == <<"uuid", n>>       \* the n-th str(uuid.uuid4())

SYSTEM_PROMPT == "You are **Atlas**, an expert AI travel assistant."

Message(type, content, id, tool_calls, tool_call_id, name, status) ==
    [type |-> type, content |-> content, id |-> id,
     tool_calls |-> tool_calls, tool_call_id |-> tool_call_id,
     name |-> name, status |-> status]

SystemMessage(content) == Message("system", content, NoId, <<>>, "", "", "")
HumanMessage(content, id) == Message("human", content, id, <<>>, "", "", "")
AIMessage(content, tool_calls, id) ==
    Message("ai", content, id, tool_calls, "", "", "")
ToolMessage(content, name, tool_call_id, status) ==
    Message("tool", content, NoId, <<>>, tool_call_id, name, status)

ToolCall(name, args, id) == [name |-> name, args |-> args, id |-> id]

(***************************************************************************)
(* The add_messages reducer of AgentState["messages"]: ids are assigned to *)
(* messages that have none, then the update is merged by id: a message     *)
(* whose id is already in the list replaces that entry in place, any other *)
(* message is appended ("so duplicates are never appended").  RemoveMessage*)
(* directives are outside the inputs explored.                             *)
(***************************************************************************)
RECURSIVE AssignIds(_, _)
AssignIds(ms, n) ==
    IF ms = <<>> THEN [msgs |-> <<>>, next |-> n]
    ELSE LET m == Head(ms)
             fresh == m.id = NoId
             rest == AssignIds(Tail(ms), IF fresh THEN n + 1 ELSE n)
         IN [msgs |-> <<IF fresh THEN [m EXCEPT !.id = Uuid(n)] ELSE m>>
                      \o rest.msgs,
             next |-> rest.next]

\* merged_by_id.get(id): the index holding id, 0 when there is none
IndexOfId(ms, id) ==
    IF \E i \in 1..Len(ms) : ms[i].id = id
    THEN CHOOSE i \in 1..Len(ms) :
            ms[i].id = id /\ \A j \in (i + 1)..Len(ms) : ms[j].id # id
    ELSE 0

RECURSIVE Merge(_, _)
Merge(merged, right) ==
    IF right = <<>> THEN merged
    ELSE LET m == Head(right)
             existing_idx == IndexOfId(merged, m.id)
         IN IF existing_idx # 0
            THEN Merge([merged EXCEPT ![existing_idx] = m], Tail(right))
            ELSE Merge(Append(merged, m), Tail(right))

\* a channel without reducer: the update overwrites the list
add_messages_overwrite(left, right, n) ==
    LET a == AssignIds(right, n)
    IN [msgs |-> a.msgs, next |-> a.next]

add_messages(left, right, n) ==
    LET a == AssignIds(right, n)
    IN [msgs |-> Merge(left, a.msgs), next |-> a.next]

(***************************************************************************)
(* Routing edge and the seeding of invoke_agent.                           *)
(***************************************************************************)
END == "__end__"

\* routing that looks for tool calls anywhere in the list
should_continue_any(msgs) ==
    IF \E i \in 1..Len(msgs) :
          msgs[i].type = "ai" /\ msgs[i].tool_calls # <<>>
    THEN "tools" ELSE END

\* routing that never ends the loop after an assistant message
should_continue_always(msgs) ==
    IF msgs[Len(msgs)].type = "ai" THEN "tools" ELSE END

should_continue(msgs) ==
    LET last_message == msgs[Len(msgs)]
    IN IF last_message.type = "ai" /\ last_message.tool_calls # <<>>
       THEN "tools" ELSE END

\* seeding that leaves the history out
SeedMessages_nohistory(history, user) ==
    <<SystemMessage(SYSTEM_PROMPT)>> \o <<HumanMessage(user, NoId)>>

\* the list invoke_agent builds before graph.invoke
SeedMessages(history, user) ==
    <<SystemMessage(SYSTEM_PROMPT)>> \o history \o <<HumanMessage(user, NoId)>>

(***************************************************************************)
(* ToolNode(tools=ALL_TOOLS): one call of the batch.  An unknown tool name *)
(* and arguments the tool's schema rejects become error tool messages; a   *)
(* tool's own return value is serialised with json.dumps.                  *)
(***************************************************************************)
InvalidToolName(name) ==
    "Error: " \o name \o " is not a valid tool, try one of "
    \o "[search_destinations, get_weather]."
ToolCallError(name) ==
    "Error: ValidationError(" \o name \o ": Field required)"
    \o "\n Please fix your mistakes."

ToolOutput(call, cfg) ==
    IF call.name = "get_weather"
    THEN DumpDict(get_weather(Get(call.args, "city").s,
                              Get(call.args, "date").s, cfg))
    ELSE DumpList(search_destinations(
             Get(call.args, "query").s,
             IF "max_results" \in Keys(call.args)
             THEN Get(call.args, "max_results").n ELSE 5))

\* outcomes of one call: "raise" lets the exception leave the tools node
run_one_raising(call, cfg) ==
    IF call.name \notin ToolNames \/ ~ArgsValid(call.name, call.args)
    THEN [raised |-> TRUE,
          msg |-> ToolMessage("", call.name, call.id, "error")]
    ELSE [raised |-> FALSE,
          msg |-> ToolMessage(ToolOutput(call, cfg), call.name, call.id,
                              "success")]

run_one(call, cfg) ==
    IF call.name \notin ToolNames
    THEN [raised |-> FALSE,
          msg |-> ToolMessage(InvalidToolName(call.name), call.name,
                              call.id, "error")]
    ELSE IF ~ArgsValid(call.name, call.args)
    THEN [raised |-> FALSE,
          msg |-> ToolMessage(ToolCallError(call.name), call.name, call.id,
                              "error")]
    ELSE [raised |-> FALSE,
          msg |-> ToolMessage(ToolOutput(call, cfg), call.name, call.id,
                              "success")]

(***************************************************************************)
(* Inputs explored: histories over three messages, two of which carry the  *)
(* same id; tool-call batches over a valid weather call, a call of a tool  *)
(* that does not exist and a weather call with a missing argument.         *)
(***************************************************************************)
SeqsUpTo(S, n) == UNION {[1..k -> S] : k \in 0..n}

HistoryMessages ==
    { HumanMessage("Hello", NoId),
      AIMessage("Hi there!", <<>>, CallerId(1)),
      HumanMessage("And Osaka?", CallerId(1)) }
Histories == SeqsUpTo(HistoryMessages, MaxHistory)
UserMessages == {"Plan 5 days in Kyoto"}

ToolCalls ==
    { ToolCall("get_weather",
               << <<"city", VStr("Kyoto")>>, <<"date", VStr("2025-04-01")>> >>,
               "call_1"),
      ToolCall("book_flight", <<>>, "call_2"),
      ToolCall("get_weather", << <<"city", VStr("Kyoto")>> >>, "call_3") }
\* batches name each call at most once
ToolCallBatches ==
    {b \in SeqsUpTo(ToolCalls, MaxToolCalls) :
        \A i, j \in 1..Len(b) : i # j => b[i] # b[j]}

\* The chat models explored (the llm argument):
\*   "scripted"  a stub that asks for the weather or answers, each time with
\*               a new message object; followed up to the recursion limit
\*   "echo"      the same two answers, but the stub may hand out the message
\*               object it returned before: the response then carries the id
\*               of the last assistant message of the list
\*   "tools"     a model that asks for any batch of tool calls or answers
LLMs == {"scripted", "echo", "tools"}

WeatherCall == CHOOSE c \in ToolCalls : c.id = "call_1"

\* the id of the last assistant message of the list, if there is one
LastAiId(msgs) ==
    LET ai == {j \in 1..Len(msgs) : msgs[j].type = "ai"}
    IN IF ai = {} THEN {}
       ELSE {msgs[CHOOSE j \in ai : \A k \in ai : k <= j].id}

Answer(tc, id) ==
    AIMessage(IF tc = <<>> THEN "Here is your itinerary." ELSE "", tc, id)

Responses(model, msgs) ==
    IF model = "scripted"
    THEN {Answer(tc, NoId) : tc \in {<<>>, <<WeatherCall>>}}
    ELSE IF model = "echo"
    THEN {Answer(tc, id) : tc \in {<<>>, <<WeatherCall>>},
                           id \in {NoId} \cup LastAiId(msgs)}
    ELSE {Answer(tc, NoId) : tc \in ToolCallBatches}

\* the calls explored: the "tools" model is run without history
Inputs ==
    {in \in [model : LLMs, history : Histories, user : UserMessages] :
        in.model = "tools" => in.history = <<>>}

\* graph.invoke is called without a config, so the graph runs under the
\* library's default recursion limit: a run that needs at most 25 supersteps
\* (one execution of the agent node or of the tools node each) completes; a
\* run that has work left after its 25th superstep executes that 26th
\* superstep and is then aborted with GraphRecursionError
RecursionLimit == 25

\* where the run is after its n-th superstep, and the error it raises
AfterStep(n, node) == IF n > RecursionLimit THEN "raised" ELSE node
StepError(n) == IF n > RecursionLimit THEN "GraphRecursionError" ELSE ""

(***************************************************************************)
(* State after import: settings built and cached (config.py line 88), no   *)
(* call in progress, no domain object built.                               *)
(***************************************************************************)
InitLoop ==
    /\ pc = "idle"
    /\ llm = "scripted"
    /\ chat_history = <<>>
    /\ user_message = ""
    /\ messages = <<>>
    /\ nextUuid = 0
    /\ step = 0
    /\ modelCalls = 0
    /\ firstInput = <<>>
    /\ responses = <<>>
    /\ pending = <<>>
    /\ outputs = <<>>
    /\ order = <<>>
    /\ toolRuns = 0
    /\ returned = <<>>
    /\ error = ""

InitConfig ==
    /\ environ \in [OPENROUTER_API_KEY : {"test-key-not-real"},
                    ATLAS_WEATHER_API_KEY : WeatherKeys]
    /\ settingsCache = <<Settings(environ)>>
    /\ weatherCall = <<>>

NoOp == [op |-> "none", cls |-> "", field |-> "", start |-> 0, end |-> 0,
         ok |-> TRUE, errors |-> {}]

InitDomain ==
    /\ obj = <<>>
    /\ itin = <<>>
    /\ lastOp = NoOp

InitRoundTrip ==
    /\ entity = <<>>
    /\ dumped = <<>>
    /\ rebuilt = <<>>

\* the threads that call get_llm()
Callers == 1..MaxCallers
Caller(at, e, result) == [pc |-> at, epoch |-> e, result |-> result]

\* nothing calls get_llm() on import: its cache starts empty
InitLlm ==
    /\ llmCache = <<>>
    /\ callers = [c \in Callers |-> Caller("idle", 0, 0)]
    /\ built = <<>>
    /\ epoch = 0

InitExt ==
    /\ InitRoundTrip
    /\ InitLlm
    /\ now = 0
    /\ deadline = 0
    /\ searchCall = <<>>
    /\ runs = [r \in 1..MaxRuns |->
                 [pc |-> "idle", history |-> <<>>, user |-> "",
                  messages |-> <<>>, nextUuid |-> 100 * r, returned |-> <<>>]]

Init == InitLoop /\ InitConfig /\ InitDomain /\ InitExt

(***************************************************************************)
(* invoke_agent: build the graph, seed the messages, start graph.invoke.   *)
(* The input is written to the channel through the reducer.                *)
(***************************************************************************)
Invoke(model, history, user) ==
    /\ pc = "idle"
    /\ LET r == add_messages(<<>>, SeedMessages(history, user), nextUuid)
       IN /\ messages' = r.msgs
          /\ nextUuid' = r.next
    /\ llm' = model
    /\ chat_history' = history
    /\ user_message' = user
    /\ pc' = "agent"
    /\ UNCHANGED <<step, modelCalls, firstInput, responses, pending, outputs,
                   order, toolRuns, returned, error>>
    /\ UNCHANGED <<cfgVars, domVars, extVars>>

\* agent node with the model answering, then the conditional edge
AgentNode ==
    /\ pc = "agent"
    /\ llm # "scripted" => modelCalls < MaxModelCalls
    /\ \E response \in Responses(llm, messages) :
         LET r == add_messages(messages, <<response>>, nextUuid)
         IN /\ messages' = r.msgs
            /\ nextUuid' = r.next
            /\ responses' = Append(responses, response)
            /\ pc' = AfterStep(step + 1,
                               IF should_continue(r.msgs) = "tools"
                               THEN "tools" ELSE "end")
    /\ error' = StepError(step + 1)
    /\ step' = step + 1
    /\ modelCalls' = modelCalls + 1
    /\ firstInput' = IF modelCalls = 0 THEN messages ELSE firstInput
    /\ UNCHANGED <<llm, chat_history, user_message, pending, outputs, order,
                   toolRuns, returned>>
    /\ UNCHANGED <<cfgVars, domVars, extVars>>

\* agent node with the failure swallowed and the model called again
AgentNodeFails_retry ==
    /\ pc = "agent"
    /\ llm # "scripted" => modelCalls < MaxModelCalls
    /\ pc' = "agent"
    /\ error' = ""
    /\ modelCalls' = modelCalls + 1
    /\ firstInput' = IF modelCalls = 0 THEN messages ELSE firstInput
    /\ UNCHANGED <<llm, chat_history, user_message, messages, nextUuid, step,
                   responses, pending, outputs, order, toolRuns, returned>>
    /\ UNCHANGED <<cfgVars, domVars, extVars>>

\* agent node with the model call raising: nothing catches it
AgentNodeFails ==
    /\ pc = "agent"
    /\ llm # "scripted" => modelCalls < MaxModelCalls
    /\ pc' = "raised"
    /\ error' = "ModelCallError"
    /\ modelCalls' = modelCalls + 1
    /\ firstInput' = IF modelCalls = 0 THEN messages ELSE firstInput
    /\ UNCHANGED <<llm, chat_history, user_message, messages, nextUuid, step,
                   responses, pending, outputs, order, toolRuns, returned>>
    /\ UNCHANGED <<cfgVars, domVars, extVars>>

\* tools node, start: the calls of the last assistant message are handed
\* to the executor, which may run them concurrently
ToolsStart ==
    /\ pc = "tools"
    /\ pending' = messages[Len(messages)].tool_calls
    /\ outputs' = [i \in 1..Len(messages[Len(messages)].tool_calls) |-> <<>>]
    /\ order' = <<>>
    /\ pc' = "running"
    /\ UNCHANGED <<llm, chat_history, user_message, messages, nextUuid, step,
                   modelCalls, firstInput, responses, toolRuns, returned,
                   error>>
    /\ UNCHANGED <<cfgVars, domVars, extVars>>

\* tools node, one call of the batch runs to completion
ToolRun(i) ==
    /\ pc = "running"
    /\ i \in 1..Len(pending)
    /\ outputs[i] = <<>>
    /\ LET r == run_one(pending[i], get_settings_value)
       IN IF r.raised
          THEN /\ pc' = "raised"
               /\ error' = "ToolException"
               /\ UNCHANGED outputs
          ELSE /\ outputs' = [outputs EXCEPT ![i] = <<r.msg>>]
               /\ UNCHANGED <<pc, error>>
    /\ order' = Append(order, i)
    /\ toolRuns' = toolRuns + 1
    /\ settingsCache' = get_settings_cache
    /\ UNCHANGED <<llm, chat_history, user_message, messages, nextUuid, step,
                   modelCalls, firstInput, responses, pending, returned>>
    /\ UNCHANGED <<environ, weatherCall, obj, itin, lastOp>>
    /\ UNCHANGED extVars

\* the outputs in the order the calls completed
RECURSIVE InCompletionOrder(_, _)
InCompletionOrder(outs, ord) ==
    IF ord = <<>> THEN <<>>
    ELSE outs[Head(ord)] \o InCompletionOrder(outs, Tail(ord))

\* the outputs in the order the calls were requested
RECURSIVE InRequestOrder(_, _)
InRequestOrder(outs, ord) ==
    IF outs = <<>> THEN <<>>
    ELSE outs[1] \o InRequestOrder(Tail(outs), ord)

\* tools node, end: all calls are done, their messages are written to the
\* channel, and the edge leads back to the agent node
ToolsEnd ==
    /\ pc = "running"
    /\ \A i \in 1..Len(pending) : outputs[i] # <<>>
    /\ LET r == add_messages(messages, InRequestOrder(outputs, order),
                             nextUuid)
       IN /\ messages' = r.msgs
          /\ nextUuid' = r.next
    /\ pc' = AfterStep(step + 1, "agent")
    /\ error' = StepError(step + 1)
    /\ step' = step + 1
    /\ UNCHANGED <<llm, chat_history, user_message, modelCalls, firstInput,
                   responses, pending, outputs, order, toolRuns, returned>>
    /\ UNCHANGED <<cfgVars, domVars, extVars>>

\* the last message invoke_agent hands back
FinalMessage_first(msgs) == msgs[1]
FinalMessage(msgs) == msgs[Len(msgs)]

\* graph.invoke returns the state, invoke_agent its last message
Return ==
    /\ pc = "end"
    /\ returned' = <<FinalMessage(messages)>>
    /\ pc' = "done"
    /\ UNCHANGED <<llm, chat_history, user_message, messages, nextUuid, step,
                   modelCalls, firstInput, responses, pending, outputs, order,
                   toolRuns, error>>
    /\ UNCHANGED <<cfgVars, domVars, extVars>>

Next ==
    \/ \E in \in Inputs : Invoke(in.model, in.history, in.user)
    \/ AgentNode
    \/ AgentNodeFails
    \/ ToolsStart
    \/ \E i \in 1..MaxToolCalls : ToolRun(i)
    \/ ToolsEnd
    \/ Return

Spec == Init /\ [][Next]_vars

(***************************************************************************)
(* Properties of the conversation loop.                                    *)
(***************************************************************************)
StripId(m) == [m EXCEPT !.id = NoId]

\* input is: the system prompt, the history in order, the user message
IsSeeded(input, history, user) ==
    /\ Len(input) = Len(history) + 2
    /\ input[1].type = "system"
    /\ input[1].content = SYSTEM_PROMPT
    /\ \A i \in 1..Len(history) : StripId(input[i + 1]) = StripId(history[i])
    /\ input[Len(input)].type = "human"
    /\ input[Len(input)].content = user

\* no two messages of the history carry the same id
DistinctIds(history) ==
    \A i, j \in 1..Len(history) :
        (i # j /\ history[i].id # NoId) => history[i].id # history[j].id

\* every response of the model was a message without an id of its own
FreshIds == \A i \in 1..Len(responses) : responses[i].id = NoId

\* C1 as claimed: the first model call gets the system prompt, then every
\* message of chat_history in order, then the user message, for every
\* history.
C1_SeedingOriginal ==
    modelCalls >= 1 => IsSeeded(firstInput, chat_history, user_message)

\* C1 (amended): the first model call gets a list that starts with the one
\* system prompt and ends with the user message, with only history messages
\* in between; when no two history messages carry the same id, these are
\* all the messages of chat_history in their original order.
C1_Seeding ==
    modelCalls >= 1 =>
        /\ firstInput[1].type = "system"
        /\ firstInput[1].content = SYSTEM_PROMPT
        /\ firstInput[Len(firstInput)].type = "human"
        /\ firstInput[Len(firstInput)].content = user_message
        /\ firstInput[Len(firstInput)].id \notin
              {chat_history[j].id : j \in 1..Len(chat_history)}
        /\ \A i \in 2..(Len(firstInput) - 1) :
              \E j \in 1..Len(chat_history) :
                  StripId(firstInput[i]) = StripId(chat_history[j])
        /\ DistinctIds(chat_history) =>
              IsSeeded(firstInput, chat_history, user_message)

C1_Witness ==
    /\ modelCalls >= 1
    /\ Len(chat_history) = 2
    /\ chat_history[1] # chat_history[2]
    /\ DistinctIds(chat_history)
    /\ IsSeeded(firstInput, chat_history, user_message)

ExactlyOnce(ord, n) ==
    /\ Len(ord) = n
    /\ \A i \in 1..n : Cardinality({k \in 1..Len(ord) : ord[k] = i}) = 1

\* C2: after a model call the route depends on the last message only: an
\* assistant message without tool calls ends the run with no further model
\* or tool call; one with tool calls leads to the tools step, which runs
\* each requested call exactly once, and the run cannot return before the
\* model has been called again.
C2_Routing ==
    [][ /\ (modelCalls' = modelCalls + 1 /\ pc' # "raised") =>
              LET last == messages'[Len(messages')]
              IN /\ (last.type = "ai" /\ last.tool_calls = <<>>) => pc' = "end"
                 /\ (last.type = "ai" /\ last.tool_calls # <<>>)
                       => pc' = "tools"
        /\ pc = "end" =>
              /\ modelCalls' = modelCalls
              /\ toolRuns' = toolRuns
              /\ pc' = "done"
        /\ pc = "tools" =>
              /\ pending' = messages[Len(messages)].tool_calls
              /\ pending' # <<>>
              /\ pc' = "running"
        /\ (pc = "running" /\ pc' # "running") =>
              /\ ExactlyOnce(order, Len(pending))
              /\ pc' \in {"agent", "raised"}
        /\ pc \in {"tools", "running"} => returned' = <<>>
        /\ pc' = "end" => modelCalls' = modelCalls + 1
      ]_vars

C2_Witness ==
    /\ pc = "end"
    /\ modelCalls = 2
    /\ toolRuns = 2
    /\ Len(pending) = 2

\* C3 as claimed, for a model whose calls succeed and whose responses are
\* new messages: nothing but an assistant message without tool calls ends
\* the run, whatever the number of round trips.
C3_TerminationOriginal ==
    (FreshIds /\ error # "ModelCallError" /\ pc \in {"end", "done", "raised"})
        => /\ responses # <<>>
           /\ responses[Len(responses)].tool_calls = <<>>

\* C3 (amended): the loop itself counts nothing.  A run returns exactly
\* when, after a model call, the last message of the list is not an
\* assistant message with tool calls; for a model whose responses are new
\* messages that is at its first response without tool calls.  The only
\* other ends are a failing model call and the recursion limit of
\* graph.invoke: a run still asking for tools after 25 supersteps (13 model
\* calls) is aborted with GraphRecursionError after its 13th tools step.
C3_Termination ==
    /\ pc \in {"end", "done"} =>
          LET last == messages[Len(messages)]
          IN /\ ~(last.type = "ai" /\ last.tool_calls # <<>>)
             /\ FreshIds =>
                   /\ responses[Len(responses)].tool_calls = <<>>
                   /\ \A i \in 1..(Len(responses) - 1) :
                         responses[i].tool_calls # <<>>
    /\ (FreshIds /\ responses # <<>>
          /\ responses[Len(responses)].tool_calls = <<>>)
          => pc \in {"end", "done"}
    /\ pc = "raised" =>
          \/ error = "ModelCallError"
          \/ /\ error = "GraphRecursionError"
             /\ step = RecursionLimit + 1
             /\ 2 * modelCalls = RecursionLimit + 1
             /\ \A i \in 1..Len(responses) : responses[i].tool_calls # <<>>
    /\ step <= RecursionLimit + 1

C3_Witness ==
    /\ pc = "raised"
    /\ error = "GraphRecursionError"
    /\ FreshIds

\* tail is: rounds of an assistant message with tool calls and one tool
\* message per call, then one assistant message without tool calls
RECURSIVE IsRounds(_)
IsRounds(tail) ==
    /\ tail # <<>>
    /\ Head(tail).type = "ai"
    /\ LET n == Len(Head(tail).tool_calls)
       IN IF n = 0 THEN Len(tail) = 1
          ELSE /\ Len(tail) > n
               /\ \A i \in 1..n :
                     /\ tail[i + 1].type = "tool"
                     /\ tail[i + 1].tool_call_id = Head(tail).tool_calls[i].id
               /\ IsRounds(SubSeq(tail, n + 2, Len(tail)))

\* the list is the seeded list, then rounds, and the run returned its last
\* message, the answer; an immediate answer means no tool was run
IsFinalSequence ==
    /\ Len(messages) > Len(firstInput)
    /\ SubSeq(messages, 1, Len(firstInput)) = firstInput
    /\ IsRounds(SubSeq(messages, Len(firstInput) + 1, Len(messages)))
    /\ returned = <<messages[Len(messages)]>>
    /\ returned[1].type = "ai"
    /\ returned[1].tool_calls = <<>>
    /\ StripId(returned[1]) = StripId(responses[Len(responses)])
    /\ responses[1].tool_calls = <<>> =>
          (toolRuns = 0 /\ returned[1].content = responses[1].content)

C5_ResultOrder ==
    [][ (pc = "running" /\ pc' # "running") =>
           LET calls == messages[Len(messages)].tool_calls
               n == Len(calls)
           IN /\ n >= 1
              /\ Len(messages') = Len(messages) + n
              /\ SubSeq(messages', 1, Len(messages)) = messages
              /\ \A i \in 1..n :
                    /\ messages'[Len(messages) + i].type = "tool"
                    /\ messages'[Len(messages) + i].tool_call_id = calls[i].id
      ]_vars

C5_Witness ==
    /\ pc = "agent"
    /\ order = <<2, 1>>
    /\ messages[Len(messages)].tool_call_id = pending[2].id
    /\ messages[Len(messages) - 1].tool_call_id = pending[1].id

\* the call fails in the tools node or its tool returns an error record
CallFails(call, cfg) ==
    \/ call.name \notin ToolNames
    \/ ~ArgsValid(call.name, call.args)
    \/ /\ call.name = "get_weather"
       /\ "error" \in Keys(get_weather(Get(call.args, "city").s,
                                       Get(call.args, "date").s, cfg))

\* what the model gets to see of a failed call
ErrorContent(call, cfg) ==
    IF call.name \notin ToolNames THEN InvalidToolName(call.name)
    ELSE IF ~ArgsValid(call.name, call.args) THEN ToolCallError(call.name)
    ELSE DumpDict(get_weather(Get(call.args, "city").s,
                              Get(call.args, "date").s, cfg))

\* a tools step with a failed call appends the error as that call's message
ErrorsAppended ==
    /\ Len(messages') = Len(messages) + Len(pending)
    /\ \A i \in 1..Len(pending) :
          CallFails(pending[i], settingsCache[1]) =>
              /\ messages'[Len(messages) + i].tool_call_id = pending[i].id
              /\ messages'[Len(messages) + i].content
                    = ErrorContent(pending[i], settingsCache[1])

SomeCallFails ==
    \E i \in 1..Len(pending) : CallFails(pending[i], settingsCache[1])

\* C6 as claimed: after a failed tool call the run never raises; the error
\* is appended and the next model call follows.
C6_ToolFailureOriginal ==
    [][ /\ (pc = "running" /\ toolRuns' = toolRuns + 1) =>
              (pc' = "running" /\ error' = "")
        /\ (pc = "running" /\ pc' # "running" /\ SomeCallFails) =>
              (ErrorsAppended /\ error' = "" /\ pc' = "agent")
      ]_vars

\* C6 (amended): a failed tool call never raises to the caller: its error
\* is appended as that call's tool message, and the next model call follows
\* unless this was the 13th tools step of the run, after which the recursion
\* limit aborts the run whatever the tools returned.
C6_ToolFailure ==
    [][ /\ (pc = "running" /\ toolRuns' = toolRuns + 1) =>
              (pc' = "running" /\ error' = "")
        /\ (pc = "running" /\ pc' # "running" /\ SomeCallFails) =>
              /\ ErrorsAppended
              /\ IF step' <= RecursionLimit
                 THEN error' = "" /\ pc' = "agent"
                 ELSE error' = "GraphRecursionError" /\ pc' = "raised"
      ]_vars

C6_Witness ==
    /\ pc = "agent"
    /\ pending # <<>>
    /\ \A i \in 1..Len(pending) : CallFails(pending[i], settingsCache[1])
    /\ messages[Len(messages)].status = "error"

(***************************************************************************)
(* Direct calls of the weather tool while the settings change: the tests   *)
(* set ATLAS_WEATHER_API_KEY and clear the cache of get_settings           *)
(* (config.py, docstring of get_settings).                                 *)
(***************************************************************************)
\* monkeypatch.setenv / delenv of the optional key
SetEnv(key) ==
    /\ environ' = [environ EXCEPT !.ATLAS_WEATHER_API_KEY = key]
    /\ UNCHANGED <<settingsCache, weatherCall>>
    /\ UNCHANGED <<loopVars, extVars>>
    /\ UNCHANGED domVars

\* get_settings.cache_clear()
CacheClear ==
    /\ settingsCache # <<>>
    /\ settingsCache' = <<>>
    /\ UNCHANGED <<environ, weatherCall>>
    /\ UNCHANGED <<loopVars, extVars>>
    /\ UNCHANGED domVars

\* get_weather.invoke({"city": city, "date": date})
GetWeather(city, date) ==
    /\ weatherCall' =
          <<[city |-> city, date |-> date,
             key |-> get_settings_value.atlas_weather_api_key,
             raised |-> get_settings_raises,
             result |-> IF get_settings_raises THEN <<>>
                        ELSE get_weather(city, date, get_settings_value)]>>
    /\ settingsCache' = get_settings_cache
    /\ UNCHANGED environ
    /\ UNCHANGED <<loopVars, extVars>>
    /\ UNCHANGED domVars

NextWeather ==
    \/ \E key \in WeatherKeys : SetEnv(key)
    \/ CacheClear
    \/ \E city \in Cities, date \in DateStrings : GetWeather(city, date)

SpecWeather == Init /\ [][NextWeather]_vars

ForecastFields ==
    {"temp_high_c", "temp_low_c", "conditions", "precipitation_pct", "note"}

\* C7: get_weather never raises and returns a record with the city and the
\* date it was given; with an empty weather key the record has an error
\* field, with a key it has the forecast fields and a note.
C7_Weather ==
    weatherCall # <<>> =>
        LET c == weatherCall[1]
        IN /\ ~c.raised
           /\ {"city", "date"} \subseteq Keys(c.result)
           /\ Get(c.result, "city") = VStr(c.city)
           /\ Get(c.result, "date") = VStr(c.date)
           /\ c.key = "" =>
                 /\ "error" \in Keys(c.result)
                 /\ Keys(c.result) \cap ForecastFields = {}
           /\ c.key # "" =>
                 /\ ForecastFields \subseteq Keys(c.result)
                 /\ "error" \notin Keys(c.result)

C7_Witness ==
    /\ weatherCall # <<>>
    /\ weatherCall[1].city = "Kyoto"
    /\ weatherCall[1].key = ""
    /\ environ.ATLAS_WEATHER_API_KEY = "fake-key"
    /\ "error" \in Keys(weatherCall[1].result)

(***************************************************************************)
(* Domain models (domain/models.py).  A date is a day number; 0 stands for *)
(* an input that is not a date.  Field values of the plain models are      *)
(* abstract.  Of an Itinerary the model keeps the dates and the days.      *)
(***************************************************************************)
ValidDates == 1..MaxDate
DateInputs == 0..MaxDate
Values == {"a", "b"}

PlainClasses == {"TripPreferences", "Destination", "ActivityNote", "Activity",
                 "TravelSegment", "ItineraryDay", "Flight", "Accommodation"}

Fields(cls) ==
    CASE cls = "TripPreferences" ->
            {"traveler_count", "budget_usd", "interests",
             "accessibility_needs", "pace"}
      [] cls = "Destination" -> {"name", "country", "iata_code", "coordinates"}
      [] cls = "ActivityNote" -> {"author", "content", "links", "tags"}
      [] cls = "Activity" ->
            {"title", "description", "duration_hours", "category",
             "start_time", "end_time", "estimated_cost_usd", "location",
             "coordinates", "notes"}
      [] cls = "TravelSegment" ->
            {"mode", "duration_minutes", "description", "estimated_cost_usd"}
      [] cls = "ItineraryDay" ->
            {"date", "activities", "travel_segments", "notes", "source"}
      [] cls = "Flight" ->
            {"airline", "flight_number", "departure_airport",
             "arrival_airport", "departure_time", "arrival_time",
             "duration_hours", "cabin_class", "estimated_cost_usd"}
      [] cls = "Accommodation" ->
            {"name", "star_rating", "nightly_rate_usd", "total_cost_usd",
             "check_in", "check_out", "description", "location",
             "coordinates"}

\* no model is frozen
Frozen_none(cls) == FALSE

\* model_config = ConfigDict(frozen=True)
Frozen(cls) ==
    cls \in {"ActivityNote", "Activity", "TravelSegment", "ItineraryDay",
             "Flight", "Accommodation"}

\* the validator with < in place of <=
end_after_start_lt(v, data) ==
    IF "start_date" \in DOMAIN data /\ v < data.start_date
    THEN {[loc |-> "end_date", msg |-> "end_date must be after start_date"]}
    ELSE {}

\* Itinerary.end_after_start: the errors it raises for end_date = v, given
\* the fields validated before end_date
end_after_start(v, data) ==
    IF "start_date" \in DOMAIN data /\ v <= data.start_date
    THEN {[loc |-> "end_date", msg |-> "end_date must be after start_date"]}
    ELSE {}

DateError(field) == {[loc |-> field, msg |-> "Input should be a valid date"]}

\* validation of Itinerary(start_date=start, end_date=end, days=days): the
\* fields in declaration order, the validator of end_date after its type
ItineraryErrors(start, end) ==
    LET startErrors == IF start \in ValidDates THEN {}
                       ELSE DateError("start_date")
        data == IF startErrors = {} THEN [start_date |-> start] ELSE <<>>
        endErrors == IF end \in ValidDates THEN end_after_start(end, data)
                     ELSE DateError("end_date")
    IN startErrors \cup endErrors

Itinerary(start, end, days) ==
    [start_date |-> start, end_date |-> end, days |-> days]

ItineraryDay(date) == [date |-> date]

DomainOp(op, cls, field, start, end, ok, errors) ==
    [op |-> op, cls |-> cls, field |-> field, start |-> start, end |-> end,
     ok |-> ok, errors |-> errors]

\* Itinerary(destination=..., start_date=start, end_date=end)
ConstructItinerary(start, end) ==
    /\ itin' = IF ItineraryErrors(start, end) = {}
               THEN <<Itinerary(start, end, <<>>)>> ELSE itin
    /\ lastOp' = DomainOp("construct", "Itinerary", "", start, end,
                          ItineraryErrors(start, end) = {},
                          ItineraryErrors(start, end))
    /\ UNCHANGED obj
    /\ UNCHANGED <<loopVars, extVars>>
    /\ UNCHANGED cfgVars

\* it.start_date = v or it.end_date = v: Itinerary is not frozen and does
\* not validate assignments, the attribute is simply set
AssignItineraryDate(field, v) ==
    /\ itin # <<>>
    /\ itin' = IF field = "start_date"
               THEN <<[itin[1] EXCEPT !.start_date = v]>>
               ELSE <<[itin[1] EXCEPT !.end_date = v]>>
    /\ lastOp' = DomainOp("assign", "Itinerary", field,
                          itin'[1].start_date, itin'[1].end_date, TRUE, {})
    /\ UNCHANGED obj
    /\ UNCHANGED <<loopVars, extVars>>
    /\ UNCHANGED cfgVars

\* it.days.append(ItineraryDay(date=d))
AppendDay(d) ==
    /\ itin # <<>>
    /\ Len(itin[1].days) < MaxDays
    /\ itin' = <<[itin[1] EXCEPT !.days = Append(@, ItineraryDay(d))]>>
    /\ lastOp' = DomainOp("append_day", "Itinerary", "days",
                          itin[1].start_date, itin[1].end_date, TRUE, {})
    /\ UNCHANGED obj
    /\ UNCHANGED <<loopVars, extVars>>
    /\ UNCHANGED cfgVars

\* it.days[i] = ItineraryDay(date=d): the day is replaced wholesale
ReplaceDay(i, d) ==
    /\ itin # <<>>
    /\ i \in 1..Len(itin[1].days)
    /\ itin' = <<[itin[1] EXCEPT !.days[i] = ItineraryDay(d)]>>
    /\ lastOp' = DomainOp("replace_day", "Itinerary", "days",
                          itin[1].start_date, itin[1].end_date, TRUE, {})
    /\ UNCHANGED obj
    /\ UNCHANGED <<loopVars, extVars>>
    /\ UNCHANGED cfgVars

\* Itinerary.model_validate(it.model_dump()): the dump is validated like a
\* construction; the rebuilt instance takes the place of the old one
Revalidate ==
    /\ itin # <<>>
    /\ LET errors == ItineraryErrors(itin[1].start_date, itin[1].end_date)
       IN /\ itin' = IF errors = {}
                     THEN <<Itinerary(itin[1].start_date, itin[1].end_date,
                                      itin[1].days)>>
                     ELSE itin
          /\ lastOp' = DomainOp("revalidate", "Itinerary", "",
                                itin[1].start_date, itin[1].end_date,
                                errors = {}, errors)
    /\ UNCHANGED obj
    /\ UNCHANGED <<loopVars, extVars>>
    /\ UNCHANGED cfgVars

\* cls(...) with every field set to v
ConstructPlain(cls, v) ==
    /\ obj' = <<[cls |-> cls, fields |-> [f \in Fields(cls) |-> v]]>>
    /\ lastOp' = DomainOp("construct", cls, "", 0, 0, TRUE, {})
    /\ UNCHANGED itin
    /\ UNCHANGED <<loopVars, extVars>>
    /\ UNCHANGED cfgVars

\* instance.field = v (BaseModel.__setattr__): a frozen model raises a
\* frozen_instance error and sets nothing, any other model sets the field
AssignField(field, v) ==
    /\ obj # <<>>
    /\ field \in Fields(obj[1].cls)
    /\ IF Frozen(obj[1].cls)
       THEN /\ obj' = obj
            /\ lastOp' = DomainOp("assign", obj[1].cls, field, 0, 0, FALSE,
                                  {[loc |-> field,
                                    msg |-> "Instance is frozen"]})
       ELSE /\ obj' = <<[obj[1] EXCEPT !.fields[field] = v]>>
            /\ lastOp' = DomainOp("assign", obj[1].cls, field, 0, 0, TRUE, {})
    /\ UNCHANGED itin
    /\ UNCHANGED <<loopVars, extVars>>
    /\ UNCHANGED cfgVars

AllFields == UNION {Fields(cls) : cls \in PlainClasses}

NextItinerary ==
    \/ \E start \in DateInputs, end \in DateInputs :
         ConstructItinerary(start, end)
    \/ \E field \in {"start_date", "end_date"}, v \in ValidDates :
         AssignItineraryDate(field, v)
    \/ \E d \in ValidDates : AppendDay(d)
    \/ \E i \in 1..MaxDays, d \in ValidDates : ReplaceDay(i, d)
    \/ Revalidate

SpecItinerary == Init /\ [][NextItinerary]_vars

NextDomain ==
    \/ \E cls \in PlainClasses, v \in Values : ConstructPlain(cls, v)
    \/ \E field \in AllFields, v \in Values : AssignField(field, v)

SpecDomain == Init /\ [][NextDomain]_vars

\* C8: constructing an Itinerary from two dates fails with the error
\* "end_date must be after start_date" on end_date when end_date <=
\* start_date (equal dates included) and succeeds when end_date > start_date.
C8_Construction ==
    (lastOp.op = "construct" /\ lastOp.cls = "Itinerary"
        /\ lastOp.start \in ValidDates /\ lastOp.end \in ValidDates) =>
        IF lastOp.end <= lastOp.start
        THEN /\ ~lastOp.ok
             /\ lastOp.errors =
                   {[loc |-> "end_date",
                     msg |-> "end_date must be after start_date"]}
        ELSE /\ lastOp.ok
             /\ lastOp.errors = {}
             /\ itin = <<Itinerary(lastOp.start, lastOp.end, <<>>)>>

C8_Witness ==
    /\ lastOp.op = "construct"
    /\ lastOp.cls = "Itinerary"
    /\ lastOp.start \in ValidDates
    /\ lastOp.end = lastOp.start
    /\ ~lastOp.ok

\* C9 as claimed: whatever is done to an Itinerary, its end_date is after
\* its start_date.
C9_DatesInvariant ==
    itin # <<>> => itin[1].end_date > itin[1].start_date

ClaimedFrozen == {"Activity", "ActivityNote", "TravelSegment", "ItineraryDay",
                  "Flight", "Accommodation"}

\* C10: assigning a field of an Activity, ActivityNote, TravelSegment,
\* ItineraryDay, Flight or Accommodation raises and leaves the instance as
\* it was.
C10_FrozenAssignment ==
    [][ (lastOp'.op = "assign" /\ lastOp'.cls \in ClaimedFrozen) =>
            /\ ~lastOp'.ok
            /\ lastOp'.errors # {}
            /\ obj' = obj
      ]_vars

C10_Witness ==
    /\ lastOp.op = "assign"
    /\ lastOp.cls = "Activity"
    /\ lastOp.field = "title"
    /\ ~lastOp.ok
    /\ obj # <<>>
    /\ obj[1].fields["title"] = "a"

\* C11 as claimed: once a Destination is constructed, no assignment changes
\* its name, country, IATA code or coordinates: the assignment is rejected
\* and the instance stays as it was.
C11_DestinationImmutable ==
    [][ (obj # <<>> /\ obj[1].cls = "Destination" /\ lastOp'.op = "assign") =>
            /\ ~lastOp'.ok
            /\ obj' = obj
      ]_vars

(***************************************************************************)
(* Serialisation of the domain models: model_dump (python and JSON mode)   *)
(* and model_validate.  A Python value is a record of one shape:           *)
(*   kind  "None", "str", "int", "float", "date", "datetime", "enum",      *)
(*         "tuple", "list", "dict", "model", "item"                        *)
(*   cls   the class of a model instance or of an enum member              *)
(*   s     the text of a str, the value of an enum member, the time zone   *)
(*         of a datetime, the key of a dict item or field                  *)
(*   n     the number of an int or float, the day of a date, the instant   *)
(*         of a datetime                                                   *)
(*   vals  the elements of a tuple or list, the items of a dict, the       *)
(*         fields of a model instance, the one value of an item            *)
(***************************************************************************)
Value(kind, cls, str, n, vals) ==
    [kind |-> kind, cls |-> cls, s |-> str, n |-> n, vals |-> vals]

None == Value("None", "", "", 0, <<>>)
Str(str) == Value("str", "", str, 0, <<>>)
Integer(n) == Value("int", "", "", n, <<>>)
Float(n) == Value("float", "", "", n, <<>>)
Date(d) == Value("date", "", "", d, <<>>)
DateTime(t, tz) == Value("datetime", "", tz, t, <<>>)
Enum(cls, member) == Value("enum", cls, member, 0, <<>>)
Tuple(vals) == Value("tuple", "", "", 0, vals)
List(vals) == Value("list", "", "", 0, vals)
Item(key, v) == Value("item", "", key, 0, <<v>>)
Dict(items) == Value("dict", "", "", 0, items)
Model(cls, items) == Value("model", cls, "", 0, items)

HasKey(d, key) == \E i \in 1..Len(d.vals) : d.vals[i].s = key
Attr(d, key) == d.vals[CHOOSE i \in 1..Len(d.vals) : d.vals[i].s = key].vals[1]

\* the str enums of models.py and the values of their members
EnumValues(cls) ==
    CASE cls = "ActivityCategory" ->
            {"sightseeing", "food", "culture", "adventure", "leisure"}
      [] cls = "TripPace" -> {"relaxed", "moderate", "packed"}
      [] cls = "TransitMode" -> {"walk", "bus", "train", "taxi", "other"}
      [] cls = "DaySource" -> {"user", "generated", "refined"}
      [] cls = "NoteAuthor" -> {"agent", "user"}

\* field types: t names the type, arg the class of a model or enum, of the
\* element type of a list or of an optional
Type(t, arg, of) == [t |-> t, arg |-> arg, of |-> of]
TStr == Type("str", "", <<>>)
TInt == Type("int", "", <<>>)
TFloat == Type("float", "", <<>>)
TDate == Type("date", "", <<>>)
TDateTime == Type("datetime", "", <<>>)
TCoordinates == Type("tuple[float, float]", "", <<>>)
TEnum(cls) == Type("enum", cls, <<>>)
TModel(cls) == Type("model", cls, <<>>)
TList(of) == Type("list", "", <<of>>)
TOptional(of) == Type("optional", "", <<of>>)

\* a field: its name, its type, and <<>> (required) or <<its default>>
FieldInfo(name, type, default) ==
    [name |-> name, type |-> type, default |-> default]

\* datetime.now(timezone.utc), the default of the timestamp fields
Now == DateTime(0, "UTC")

\* TripPreferences(), the default of Itinerary.preferences
DefaultPreferences ==
    Model("TripPreferences",
          << Item("traveler_count", Integer(1)), Item("budget_usd", None),
             Item("interests", List(<<>>)),
             Item("accessibility_needs", List(<<>>)),
             Item("pace", Enum("TripPace", "moderate")) >>)

\* the fields of each model, in declaration order
Schema(cls) ==
    CASE cls = "TripPreferences" ->
            << FieldInfo("traveler_count", TInt, <<Integer(1)>>),
               FieldInfo("budget_usd", TOptional(TFloat), <<None>>),
               FieldInfo("interests", TList(TStr), <<List(<<>>)>>),
               FieldInfo("accessibility_needs", TList(TStr), <<List(<<>>)>>),
               FieldInfo("pace", TEnum("TripPace"),
                         <<Enum("TripPace", "moderate")>>) >>
      [] cls = "Destination" ->
            << FieldInfo("name", TStr, <<>>),
               FieldInfo("country", TStr, <<>>),
               FieldInfo("iata_code", TOptional(TStr), <<None>>),
               FieldInfo("coordinates", TOptional(TCoordinates), <<None>>) >>
      [] cls = "ActivityNote" ->
            << FieldInfo("author", TEnum("NoteAuthor"), <<>>),
               FieldInfo("content", TStr, <<>>),
               FieldInfo("links", TList(TStr), <<List(<<>>)>>),
               FieldInfo("tags", TList(TStr), <<List(<<>>)>>) >>
      [] cls = "Activity" ->
            << FieldInfo("title", TStr, <<>>),
               FieldInfo("description", TStr, <<>>),
               FieldInfo("duration_hours", TFloat, <<>>),
               FieldInfo("category", TEnum("ActivityCategory"), <<>>),
               FieldInfo("start_time", TOptional(TStr), <<None>>),
               FieldInfo("end_time", TOptional(TStr), <<None>>),
               FieldInfo("estimated_cost_usd", TOptional(TFloat), <<None>>),
               FieldInfo("location", TOptional(TStr), <<None>>),
               FieldInfo("coordinates", TOptional(TCoordinates), <<None>>),
               FieldInfo("notes", TList(TModel("ActivityNote")),
                         <<List(<<>>)>>) >>
      [] cls = "TravelSegment" ->
            << FieldInfo("mode", TEnum("TransitMode"), <<>>),
               FieldInfo("duration_minutes", TInt, <<>>),
               FieldInfo("description", TStr, <<>>),
               FieldInfo("estimated_cost_usd", TOptional(TFloat), <<None>>) >>
      [] cls = "ItineraryDay" ->
            << FieldInfo("date", TDate, <<>>),
               FieldInfo("activities", TList(TModel("Activity")),
                         <<List(<<>>)>>),
               FieldInfo("travel_segments", TList(TModel("TravelSegment")),
                         <<List(<<>>)>>),
               FieldInfo("notes", TStr, <<Str("")>>),
               FieldInfo("source", TEnum("DaySource"),
                         <<Enum("DaySource", "generated")>>) >>
      [] cls = "Flight" ->
            << FieldInfo("airline", TStr, <<>>),
               FieldInfo("flight_number", TStr, <<>>),
               FieldInfo("departure_airport", TStr, <<>>),
               FieldInfo("arrival_airport", TStr, <<>>),
               FieldInfo("departure_time", TDateTime, <<>>),
               FieldInfo("arrival_time", TDateTime, <<>>),
               FieldInfo("duration_hours", TFloat, <<>>),
               FieldInfo("cabin_class", TStr, <<Str("economy")>>),
               FieldInfo("estimated_cost_usd", TOptional(TFloat), <<None>>) >>
      [] cls = "Accommodation" ->
            << FieldInfo("name", TStr, <<>>),
               FieldInfo("star_rating", TOptional(TFloat), <<None>>),
               FieldInfo("nightly_rate_usd", TOptional(TFloat), <<None>>),
               FieldInfo("total_cost_usd", TOptional(TFloat), <<None>>),
               FieldInfo("check_in", TDate, <<>>),
               FieldInfo("check_out", TDate, <<>>),
               FieldInfo("description", TStr, <<Str("")>>),
               FieldInfo("location", TOptional(TStr), <<None>>),
               FieldInfo("coordinates", TOptional(TCoordinates), <<None>>) >>
      [] cls = "Itinerary" ->
            << FieldInfo("destination", TModel("Destination"), <<>>),
               FieldInfo("start_date", TDate, <<>>),
               FieldInfo("end_date", TDate, <<>>),
               FieldInfo("preferences", TModel("TripPreferences"),
                         <<DefaultPreferences>>),
               FieldInfo("days", TList(TModel("ItineraryDay")),
                         <<List(<<>>)>>),
               FieldInfo("flights", TList(TModel("Flight")), <<List(<<>>)>>),
               FieldInfo("accommodations", TList(TModel("Accommodation")),
                         <<List(<<>>)>>),
               FieldInfo("created_at", TDateTime, <<Now>>) >>
      [] cls = "ChatMessage" ->
            << FieldInfo("role", TStr, <<>>),
               FieldInfo("content", TStr, <<>>),
               FieldInfo("timestamp", TDateTime, <<Now>>) >>
      [] cls = "UserProfile" ->
            << FieldInfo("favourite_destination_types", TList(TStr),
                         <<List(<<>>)>>),
               FieldInfo("favourite_categories", TList(TStr), <<List(<<>>)>>),
               FieldInfo("preferred_pace", TEnum("TripPace"),
                         <<Enum("TripPace", "moderate")>>),
               FieldInfo("typical_budget_usd", TOptional(TFloat), <<None>>),
               FieldInfo("past_destinations", TList(TStr), <<List(<<>>)>>),
               FieldInfo("trip_count", TInt, <<Integer(0)>>),
               FieldInfo("updated_at", TDateTime, <<Now>>) >>

\* date.isoformat() and its parsing; the dates are the days of April 2025
Pad2(n) == IF n < 10 THEN "0" \o ToString(n) ELSE ToString(n)

\* a formatting without zero padding
IsoDate_unpadded(d) == "2025-4-" \o ToString(d)

IsoDate(d) == "2025-04-" \o Pad2(d)
ParseDate(str) == {d \in 1..30 : str = "2025-04-" \o Pad2(d)}

\* datetimes are instants t (seconds of one minute), aware (UTC) or naive
IsoDateTime(t, tz) ==
    "2025-04-01T08:00:" \o Pad2(t) \o (IF tz = "UTC" THEN "Z" ELSE "")
ParseDateTime(str) ==
    {p \in (0..59) \X {"UTC", ""} : str = IsoDateTime(p[1], p[2])}

\* model_dump(mode=...): models become dicts; in JSON mode dates, datetimes
\* and enum members become strings and tuples become lists
RECURSIVE Dump(_, _)

\* the elements in reverse order
DumpAll_reversed(vs, mode) ==
    IF vs = <<>> THEN <<>>
    ELSE [i \in 1..Len(vs) |-> Dump(vs[Len(vs) + 1 - i], mode)]

DumpAll(vs, mode) ==
    IF vs = <<>> THEN <<>> ELSE [i \in 1..Len(vs) |-> Dump(vs[i], mode)]

Dump(v, mode) ==
    CASE v.kind = "model" -> Dict(DumpAll(v.vals, mode))
      [] v.kind = "item" -> Item(v.s, Dump(v.vals[1], mode))
      [] v.kind = "list" -> List(DumpAll(v.vals, mode))
      [] v.kind = "tuple" -> IF mode = "json" THEN List(DumpAll(v.vals, mode))
                             ELSE Tuple(DumpAll(v.vals, mode))
      [] v.kind = "date" -> IF mode = "json" THEN Str(IsoDate(v.n)) ELSE v
      [] v.kind = "datetime" ->
            IF mode = "json" THEN Str(IsoDateTime(v.n, v.s)) ELSE v
      [] v.kind = "enum" -> IF mode = "json" THEN Str(v.s) ELSE v
      [] OTHER -> v

\* model_validate and the validation of each field (lax mode).  Floats are
\* counted in tenths, so that Float(25) is 2.5 and Integer(2) becomes
\* Float(20).  Strings that spell a number are outside the inputs explored.
Ok(v) == [ok |-> TRUE, v |-> v]
Failed == [ok |-> FALSE, v |-> None]

\* the field validators of a class: the errors for field name = v, given
\* the fields validated before it
FieldErrors(cls, name, v, data) ==
    IF cls = "Itinerary" /\ name = "end_date"
    THEN end_after_start(v.n, IF HasKey(data, "start_date")
                              THEN [start_date |-> Attr(data, "start_date").n]
                              ELSE <<>>)
    ELSE {}

RECURSIVE Validate(_, _)
RECURSIVE ValidateAll(_, _)
RECURSIVE ValidateFields(_, _, _, _)

ValidateAll(type, vs) ==
    IF vs = <<>> THEN Ok(<<>>)
    ELSE LET first == Validate(type, Head(vs))
             rest == ValidateAll(type, Tail(vs))
         IN IF first.ok /\ rest.ok THEN Ok(<<first.v>> \o rest.v)
            ELSE [ok |-> FALSE, v |-> <<>>]

\* fields: the fields still to validate; data: the model built so far;
\* ok: no field has failed so far
ValidateFields(fields, input, data, ok) ==
    IF fields = <<>> THEN [ok |-> ok, v |-> data]
    ELSE LET f == Head(fields)
             r == IF HasKey(input, f.name)
                  THEN Validate(f.type, Attr(input, f.name))
                  ELSE IF f.default # <<>> THEN Ok(f.default[1])
                  ELSE Failed
             valid == r.ok /\ (HasKey(input, f.name) =>
                                  FieldErrors(data.cls, f.name, r.v, data) = {})
         IN IF valid
            THEN ValidateFields(Tail(fields), input,
                                Model(data.cls,
                                      Append(data.vals, Item(f.name, r.v))),
                                ok)
            ELSE ValidateFields(Tail(fields), input, data, FALSE)

Validate(type, v) ==
    CASE type.t = "str" -> IF v.kind = "str" THEN Ok(v) ELSE Failed
      [] type.t = "int" ->
            IF v.kind = "int" THEN Ok(v)
            ELSE IF v.kind = "float" /\ v.n % 10 = 0
            THEN Ok(Integer(v.n \div 10))
            ELSE Failed
      [] type.t = "float" ->
            IF v.kind = "float" THEN Ok(v)
            ELSE IF v.kind = "int" THEN Ok(Float(10 * v.n))
            ELSE Failed
      [] type.t = "date" ->
            IF v.kind = "date" THEN Ok(v)
            ELSE IF v.kind = "str" /\ ParseDate(v.s) # {}
            THEN Ok(Date(CHOOSE d \in ParseDate(v.s) : TRUE))
            ELSE Failed
      [] type.t = "datetime" ->
            IF v.kind = "datetime" THEN Ok(v)
            ELSE IF v.kind = "str" /\ ParseDateTime(v.s) # {}
            THEN LET p == CHOOSE p \in ParseDateTime(v.s) : TRUE
                 IN Ok(DateTime(p[1], p[2]))
            ELSE Failed
      [] type.t = "enum" ->
            IF v.kind = "enum" /\ v.cls = type.arg THEN Ok(v)
            ELSE IF v.kind = "str" /\ v.s \in EnumValues(type.arg)
            THEN Ok(Enum(type.arg, v.s))
            ELSE Failed
      [] type.t = "tuple[float, float]" ->
            IF v.kind \in {"tuple", "list"} /\ Len(v.vals) = 2
            THEN LET r == ValidateAll(TFloat, v.vals)
                 IN IF r.ok THEN Ok(Tuple(r.v)) ELSE Failed
            ELSE Failed
      [] type.t = "list" ->
            IF v.kind \in {"list", "tuple"}
            THEN LET r == ValidateAll(type.of[1], v.vals)
                 IN IF r.ok THEN Ok(List(r.v)) ELSE Failed
            ELSE Failed
      [] type.t = "optional" ->
            IF v.kind = "None" THEN Ok(v) ELSE Validate(type.of[1], v)
      [] type.t = "model" ->
            IF v.kind = "model" /\ v.cls = type.arg THEN Ok(v)
            ELSE IF v.kind = "dict"
            THEN LET r == ValidateFields(Schema(type.arg), v,
                                         Model(type.arg, <<>>), TRUE)
                 IN IF r.ok THEN r ELSE Failed
            ELSE Failed

\* cls(**kwargs) and cls.model_validate(data)
Construct(cls, kwargs) == Validate(TModel(cls), Dict(kwargs))
model_validate(cls, data) == Validate(TModel(cls), data)

(***************************************************************************)
(* The entities explored: the objects of tests/conftest.py and             *)
(* tests/domain/test_models.py and variations of them.  Each is built by   *)
(* its constructor; a constructor call that fails yields no entity.        *)
(***************************************************************************)
Built(cls, kwargs) ==
    LET r == Construct(cls, kwargs) IN IF r.ok THEN {r.v} ELSE {}

Kyoto == << Item("name", Str("Kyoto")), Item("country", Str("Japan")) >>
KyotoCoordinates == Tuple(<<Float(350), Float(1357)>>)

Destinations ==
    Built("Destination", Kyoto)
    \cup Built("Destination",
               Kyoto \o << Item("iata_code", Str("KIX")),
                           Item("coordinates", KyotoCoordinates) >>)

Preferences ==
    Built("TripPreferences", <<>>)
    \cup Built("TripPreferences",
               << Item("traveler_count", Integer(2)),
                  Item("budget_usd", Float(30000)),
                  Item("interests",
                       List(<<Str("temples"), Str("food"),
                              Str("cherry blossom")>>)),
                  Item("pace", Str("moderate")) >>)

NoteArrive ==
    << Item("author", Enum("NoteAuthor", "agent")),
       Item("content", Str("Arrive early to avoid crowds.")),
       Item("links", List(<<Str("https://example.com")>>)),
       Item("tags", List(<<Str("UNESCO"), Str("shrine")>>)) >>
NoteCash ==
    << Item("author", Str("user")), Item("content", Str("Bring cash.")) >>

Notes == Built("ActivityNote", NoteArrive) \cup Built("ActivityNote", NoteCash)

Shrine ==
    << Item("title", Str("Fushimi Inari Shrine")),
       Item("description", Str("Walk the thousand torii gates.")),
       Item("duration_hours", Float(25)),
       Item("category", Enum("ActivityCategory", "sightseeing")),
       Item("start_time", Str("08:00")),
       Item("end_time", Str("10:30")),
       Item("estimated_cost_usd", Integer(0)),
       Item("location", Str("Fushimi Ward")) >>

Market ==
    << Item("title", Str("Nishiki Market")),
       Item("description", Str("Lunch at the market.")),
       Item("duration_hours", Integer(1)),
       Item("category", Str("food")) >>

Activities ==
    UNION { Built("Activity", Shrine \o << Item("notes", List(ns)) >> \o c) :
              ns \in SeqsUpTo(Notes, MaxNotes),
              c \in {<<>>, << Item("coordinates", KyotoCoordinates) >>} }

Segments ==
    Built("TravelSegment",
          << Item("mode", Enum("TransitMode", "train")),
             Item("duration_minutes", Integer(15)),
             Item("description", Str("JR Nara Line to Kyoto Station")) >>)

\* the activities and the travel segments of the days explored
DayPlans ==
    UNION { { <<>>,
              << Item("activities", List(<<a>>)) >>,
              << Item("activities", List(<<a, m>>)),
                 Item("travel_segments", List(<<g>>)),
                 Item("source", Str("refined")) >>,
              << Item("activities", List(<<m, a>>)),
                 Item("notes", Str("Market first.")) >> } :
            a \in Built("Activity",
                        Shrine \o << Item("notes",
                                          List(<<Construct("ActivityNote",
                                                           NoteArrive).v,
                                                 Construct("ActivityNote",
                                                           NoteCash).v>>)) >>),
            m \in Built("Activity", Market),
            g \in Segments }

Days ==
    UNION { Built("ItineraryDay", << Item("date", Date(d)) >> \o plan) :
              d \in ValidDates, plan \in DayPlans }

Flights ==
    Built("Flight",
          << Item("airline", Str("ANA")), Item("flight_number", Str("NH105")),
             Item("departure_airport", Str("LAX")),
             Item("arrival_airport", Str("KIX")),
             Item("departure_time", DateTime(5, "")),
             Item("arrival_time", DateTime(50, "")),
             Item("duration_hours", Float(115)) >>)

Accommodations ==
    UNION { Built("Accommodation",
                  << Item("name", Str("Ryokan")),
                     Item("star_rating", Float(45)),
                     Item("check_in", Date(a)), Item("check_out", Date(b)) >>) :
              a \in {1}, b \in {MaxDate} }

\* the optional arguments of the itineraries explored
ItineraryExtras ==
    { <<>> }
    \cup { << Item("preferences", p), Item("flights", List(<<f>>)),
              Item("accommodations", List(<<acc>>)) >> :
            p \in Preferences \ Built("TripPreferences", <<>>),
            f \in Flights, acc \in Accommodations }

\* the days of an itinerary starting on start: one day per plan, on
\* consecutive dates
DayOn(d, plan) ==
    Construct("ItineraryDay",
              << Item("date", Date(IF d < MaxDate THEN d ELSE MaxDate)) >>
              \o plan).v
ItineraryDays(start) ==
    { [i \in 1..Len(plans) |-> DayOn(start + i - 1, plans[i])] :
        plans \in SeqsUpTo(DayPlans, MaxDays) \ {<<>>} } \cup {<<>>}

\* Itinerary(...) for every pair of dates: the pairs the validator rejects
\* yield no entity
ItinerariesFrom(start) ==
    UNION { Built("Itinerary",
                  << Item("destination", dest),
                     Item("start_date", Date(start)),
                     Item("end_date", Date(end)),
                     Item("days", List(days)) >> \o extra) :
              dest \in Built("Destination", Kyoto), end \in ValidDates,
              days \in ItineraryDays(start), extra \in ItineraryExtras }
Itineraries == UNION {ItinerariesFrom(start) : start \in ValidDates}

Others ==
    Built("ChatMessage",
          << Item("role", Str("user")), Item("content", Str("Hello")) >>)
    \cup Built("UserProfile", <<>>)
    \cup Built("UserProfile",
               << Item("favourite_categories", List(<<Str("food")>>)),
                  Item("preferred_pace", Str("packed")),
                  Item("typical_budget_usd", Integer(3000)),
                  Item("trip_count", Integer(2)) >>)

Entities ==
    Destinations \cup Preferences \cup Notes \cup Activities \cup Segments
    \cup Days \cup Flights \cup Accommodations \cup Itineraries \cup Others

DumpModes == {"python", "json"}

\* an entity is constructed
Build(e) ==
    /\ entity = <<>>
    /\ entity' = <<e>>
    /\ UNCHANGED <<dumped, rebuilt>>
    /\ UNCHANGED <<loopVars, cfgVars, domVars, llmVars, dlVars, searchCall, runs>>

\* data = entity.model_dump(mode=mode)
ModelDump(mode) ==
    /\ entity # <<>>
    /\ dumped = <<>>
    /\ dumped' = <<[mode |-> mode, data |-> Dump(entity[1], mode)]>>
    /\ UNCHANGED <<entity, rebuilt>>
    /\ UNCHANGED <<loopVars, cfgVars, domVars, llmVars, dlVars, searchCall, runs>>

\* rebuilt = cls.model_validate(data)
ModelValidate ==
    /\ dumped # <<>>
    /\ rebuilt = <<>>
    /\ rebuilt' = <<model_validate(entity[1].cls, dumped[1].data)>>
    /\ UNCHANGED <<entity, dumped>>
    /\ UNCHANGED <<loopVars, cfgVars, domVars, llmVars, dlVars, searchCall, runs>>

NextRoundTrip ==
    \/ \E e \in Entities : Build(e)
    \/ \E mode \in DumpModes : ModelDump(mode)
    \/ ModelValidate

SpecRoundTrip == Init /\ [][NextRoundTrip]_vars

\* C12: validating the dump of an entity, in python or in JSON mode,
\* succeeds and yields a value equal to the entity: the same class and,
\* field for field, the same values, lists in the same order.
C12_RoundTrip ==
    rebuilt # <<>> =>
        /\ rebuilt[1].ok
        /\ rebuilt[1].v.cls = entity[1].cls
        /\ Len(rebuilt[1].v.vals) = Len(entity[1].vals)
        /\ \A i \in 1..Len(entity[1].vals) :
              rebuilt[1].v.vals[i] = entity[1].vals[i]
        /\ rebuilt[1].v = entity[1]

\* an itinerary whose day has two activities, the first with two notes,
\* rebuilt from its JSON dump, in which the dates are strings
C12_Witness ==
    /\ rebuilt # <<>>
    /\ dumped[1].mode = "json"
    /\ entity[1].cls = "Itinerary"
    /\ Attr(dumped[1].data, "start_date").kind = "str"
    /\ Len(Attr(entity[1], "days").vals) = 1
    /\ LET day == Attr(entity[1], "days").vals[1]
       IN /\ Len(Attr(day, "activities").vals) = 2
          /\ Len(Attr(Attr(day, "activities").vals[1], "notes").vals) = 2
    /\ rebuilt[1].v = entity[1]

(***************************************************************************)
(* get_llm() under lru_cache(maxsize=1) (llm/router.py), called from       *)
(* several threads.  The cache wrapper looks the key up; on a miss it      *)
(* calls the function without holding a lock and, when the function has    *)
(* returned, stores the result unless the key has been added in the        *)
(* meantime; either way the caller gets the result of its own call.        *)
(* Handles are numbered in the order of their construction; built[h] is    *)
(* the epoch (number of cache clears) in which the call that built h       *)
(* started.                                                                *)
(***************************************************************************)
\* get_llm(), the lookup: a hit returns the cached handle, a miss enters
\* the function body
GetLlmLookup(c) ==
    /\ callers[c].pc = "idle"
    /\ callers' = [callers EXCEPT ![c] =
                      IF llmCache # <<>>
                      THEN Caller("done", epoch, llmCache[1])
                      ELSE Caller("constructing", epoch, 0)]
    /\ UNCHANGED <<llmCache, built, epoch>>
    /\ UNCHANGED <<loopVars, cfgVars, domVars, rtVars, dlVars, searchCall, runs>>

\* the cache after a call that missed has produced handle h
StoreResult(cache, h) == IF cache = <<>> THEN <<h>> ELSE cache

\* get_llm(), the function body returns: ChatOpenAI(...) is constructed
\* from the settings and handed to the caller
GetLlmReturn(c) ==
    /\ callers[c].pc = "constructing"
    /\ ~get_settings_raises
    /\ built' = Append(built, callers[c].epoch)
    /\ llmCache' = StoreResult(llmCache, Len(built) + 1)
    /\ callers' = [callers EXCEPT ![c] =
                      Caller("done", callers[c].epoch, Len(built) + 1)]
    /\ settingsCache' = get_settings_cache
    /\ UNCHANGED <<epoch, environ, weatherCall>>
    /\ UNCHANGED <<loopVars, domVars, rtVars, dlVars, searchCall, runs>>

\* the caller is ready for its next call of get_llm()
CallAgain(c) ==
    /\ callers[c].pc = "done"
    /\ callers' = [callers EXCEPT ![c] = Caller("idle", 0, 0)]
    /\ UNCHANGED <<llmCache, built, epoch>>
    /\ UNCHANGED <<loopVars, cfgVars, domVars, rtVars, dlVars, searchCall, runs>>

\* get_llm.cache_clear()
LlmCacheClear ==
    /\ epoch < MaxClears
    /\ llmCache' = <<>>
    /\ epoch' = epoch + 1
    /\ UNCHANGED <<callers, built>>
    /\ UNCHANGED <<loopVars, cfgVars, domVars, rtVars, dlVars, searchCall, runs>>

NextLlm ==
    \/ \E c \in Callers : GetLlmLookup(c)
    \/ \E c \in Callers : GetLlmReturn(c)
    \/ \E c \in Callers : CallAgain(c)
    \/ LlmCacheClear

SpecLlm == Init /\ [][NextLlm]_vars

\* C13 as claimed: between two cache clears the handle is constructed at
\* most once, and all calls return the same instance, also when they are
\* issued before the first one has finished.
C13_SingleHandle ==
    /\ \A g, h \in 1..Len(built) : g # h => built[g] # built[h]
    /\ \A c, d \in Callers :
          (callers[c].pc = "done" /\ callers[d].pc = "done"
              /\ callers[c].epoch = callers[d].epoch)
              => callers[c].result = callers[d].result

(***************************************************************************)
(* A run whose model call does not return.  invoke_agent takes the model,  *)
(* the user message and the history and nothing else; graph.invoke is      *)
(* called without a timeout, and agent_node waits for                      *)
(* llm_with_tools.invoke to return.  The two tools do no I/O (their        *)
(* requests are commented out), so only the model call can block.  The     *)
(* caller's deadline is kept beside the run: no argument carries it.       *)
(***************************************************************************)
\* the caller decides how long it is willing to wait
SetDeadline(d) ==
    /\ pc = "idle"
    /\ deadline = 0
    /\ deadline' = d
    /\ UNCHANGED now
    /\ UNCHANGED <<loopVars, cfgVars, domVars, rtVars, llmVars, searchCall,
                 runs>>

\* agent node with the model call in flight and not returning
AgentNodeBlocks ==
    /\ pc = "agent"
    /\ pc' = "blocked"
    /\ modelCalls' = modelCalls + 1
    /\ firstInput' = IF modelCalls = 0 THEN messages ELSE firstInput
    /\ UNCHANGED <<llm, chat_history, user_message, messages, nextUuid, step,
                   responses, pending, outputs, order, toolRuns, returned,
                   error>>
    /\ UNCHANGED <<cfgVars, domVars, extVars>>

\* time passes while the call is in flight: nothing in the run watches it
Tick ==
    /\ pc = "blocked"
    /\ now < MaxTime
    /\ now' = now + 1
    /\ UNCHANGED deadline
    /\ UNCHANGED <<loopVars, cfgVars, domVars, rtVars, llmVars, searchCall,
                 runs>>

NextDeadline ==
    \/ \E d \in 1..(MaxTime - 1) : SetDeadline(d)
    \/ \E user \in UserMessages : Invoke("scripted", <<>>, user)
    \/ AgentNode
    \/ AgentNodeBlocks
    \/ Tick
    \/ ToolsStart
    \/ \E i \in 1..MaxToolCalls : ToolRun(i)
    \/ ToolsEnd
    \/ Return

SpecDeadline == Init /\ [][NextDeadline]_vars

\* C14 as claimed: a model call that does not return is aborted when the
\* caller's deadline expires: no call of the run is still in flight after
\* the deadline.
C14_Deadline ==
    (pc = "blocked" /\ deadline > 0) => now <= deadline

\* C15: a model call that raises, at whatever round, ends the run: the
\* exception reaches the caller, the messages stay as they were, nothing is
\* returned, and no model call, tool call or return follows.
C15_ModelFailure ==
    [][ /\ (pc = "agent" /\ modelCalls' = modelCalls + 1
              /\ responses' = responses) =>
              /\ pc' = "raised"
              /\ error' = "ModelCallError"
              /\ messages' = messages
              /\ toolRuns' = toolRuns
              /\ returned' = <<>>
        /\ error = "ModelCallError" =>
              /\ pc' = "raised"
              /\ error' = error
              /\ modelCalls' = modelCalls
              /\ toolRuns' = toolRuns
              /\ returned' = <<>>
      ]_vars

\* the second model call of a run fails, after a tools step
C15_Witness ==
    /\ pc = "raised"
    /\ error = "ModelCallError"
    /\ modelCalls = 2
    /\ Len(responses) = 1
    /\ toolRuns >= 1
    /\ returned = <<>>

(***************************************************************************)
(* Direct calls of the search tool (tools/search.py):                      *)
(* search_destinations.invoke(args).  The @tool decorator validates the    *)
(* arguments against the signature (query: str, max_results: int = 5) and  *)
(* raises on arguments it does not accept; the body then returns its one   *)
(* placeholder record, whatever max_results is.                            *)
(***************************************************************************)
DefaultMaxResults == 5

Queries == {"kyoto", "beach towns", "temples in Kyoto", "beaches in Bali", ""}

\* the argument dicts explored: max_results left out, an int from -1 up,
\* or a string that is no number
SearchArgs ==
    { << <<"query", VStr(q)>> >> : q \in Queries }
    \cup { << <<"query", VStr(q)>>, <<"max_results", m>> >> :
             q \in Queries,
             m \in {VInt(n) : n \in -1..MaxResults} \cup {VStr("many")} }
    \cup { << <<"max_results", VInt(1)>> >> }

\* the arguments pass the schema of the tool
SearchArgsAccepted(args) ==
    /\ "query" \in Keys(args)
    /\ Get(args, "query").kind = "str"
    /\ "max_results" \in Keys(args) => Get(args, "max_results").kind = "int"

\* search_destinations.invoke(args)
SearchDestinations(args) ==
    /\ searchCall' =
          <<[args |-> args,
             accepted |-> SearchArgsAccepted(args),
             raised |-> ~SearchArgsAccepted(args),
             max_results |-> IF ~SearchArgsAccepted(args) THEN 0
                             ELSE IF "max_results" \in Keys(args)
                             THEN Get(args, "max_results").n
                             ELSE DefaultMaxResults,
             result |-> IF ~SearchArgsAccepted(args) THEN <<>>
                        ELSE search_destinations(
                                 Get(args, "query").s,
                                 IF "max_results" \in Keys(args)
                                 THEN Get(args, "max_results").n
                                 ELSE DefaultMaxResults)]>>
    /\ UNCHANGED <<loopVars, cfgVars, domVars, rtVars, llmVars, dlVars, runs>>

NextSearch == \E args \in SearchArgs : SearchDestinations(args)

SpecSearch == Init /\ [][NextSearch]_vars

\* a destination record, or a record with the one field error
IsSearchRecord(rec) ==
    \/ {"name", "country", "description", "coordinates"} \subseteq Keys(rec)
    \/ Keys(rec) = {"error"} /\ Len(rec) = 1

\* C16 as claimed: a call of search_destinations whose arguments are
\* accepted has max_results >= 1 (5 when left out), does not raise, and
\* returns at most max_results records, each a destination record or an
\* error record.
C16_MaxResults ==
    (searchCall # <<>> /\ searchCall[1].accepted) =>
        /\ ~searchCall[1].raised
        /\ searchCall[1].max_results >= 1
        /\ Len(searchCall[1].result) <= searchCall[1].max_results
        /\ \A i \in 1..Len(searchCall[1].result) :
              IsSearchRecord(searchCall[1].result[i])

\* before is a prefix of after
IsPrefix(before, after) ==
    /\ Len(before) <= Len(after)
    /\ SubSeq(after, 1, Len(before)) = before

\* C17 as claimed: every step of a run leaves the messages already in the
\* list as they are and where they are and only adds messages at the end,
\* whatever the model returns.
C17_AppendOnlyOriginal ==
    [][ IsPrefix(messages, messages') ]_vars

\* C17 (amended): no step removes a message or moves one, and a step leaves
\* unchanged every message whose id is not the id of a message the step
\* returns.  A tools step appends one message per call; a model step whose
\* response carries no id of a message of the list appends the response, so
\* that the list before these steps is a prefix of the list after them.  A
\* response that carries the id of a message of the list replaces that
\* message in place and adds nothing.
C17_AppendOnly ==
    [][ /\ Len(messages') >= Len(messages)
        /\ \A i \in 1..Len(messages) : messages'[i].id = messages[i].id
        /\ responses' = responses => IsPrefix(messages, messages')
        /\ (pc = "running" /\ pc' # "running") =>
              Len(messages') = Len(messages) + Len(pending)
        /\ responses' # responses =>
              LET response == responses'[Len(responses')]
                  known == \E i \in 1..Len(messages) :
                              messages[i].id = response.id
              IN /\ \A i \in 1..Len(messages) :
                       messages[i].id # response.id
                           => messages'[i] = messages[i]
                 /\ ~known =>
                       /\ IsPrefix(messages, messages')
                       /\ Len(messages') = Len(messages) + 1
                       /\ StripId(messages'[Len(messages')])
                             = StripId(response)
                 /\ known =>
                       /\ Len(messages') = Len(messages)
                       /\ \A i \in 1..Len(messages) :
                             messages[i].id = response.id
                                 => messages'[i] = response
      ]_vars

\* a run of two model steps and a tools step, each of which appended
C17_Witness ==
    /\ pc = "done"
    /\ FreshIds
    /\ Len(responses) = 2
    /\ Len(pending) = 1
    /\ Len(messages) = Len(firstInput) + 3
    /\ IsPrefix(firstInput, messages)
    /\ messages[Len(firstInput) + 2].type = "tool"

(***************************************************************************)
(* Several invoke_agent calls at once.  Each call builds its own graph     *)
(* (build_travel_agent) and its own list of messages; the calls share the  *)
(* model handle, the tools of ALL_TOOLS and the cached settings.  The      *)
(* handle is a function of the messages it is given.  uuid4 ids are        *)
(* unique: run r draws them from a block of its own.  Runs are compared up *)
(* to message ids, which are opaque.                                       *)
(***************************************************************************)
RunIds == 1..MaxRuns

RunUsers == {"Plan 5 days in Kyoto", "Hello"}
RunHistories ==
    { <<>>,
      <<HumanMessage("Hello", NoId), AIMessage("Hi there!", <<>>, CallerId(1))>> }

Run(at, history, user, msgs, n, result) ==
    [pc |-> at, history |-> history, user |-> user, messages |-> msgs,
     nextUuid |-> n, returned |-> result]

\* one state for all runs: the one the first run has set up
StateOf_shared(rs, r) == IF rs[1].pc = "idle" THEN rs[r] ELSE rs[1]

\* the state the graph of run r works on
StateOf(rs, r) == rs[r]

\* the shared handle: asks for the weather when asked for a plan, answers
\* with the forecast once it has the tool's result, greets otherwise
Respond(msgs) ==
    LET last == msgs[Len(msgs)]
    IN IF last.type = "tool"
       THEN AIMessage("Forecast: " \o last.content, <<>>, NoId)
       ELSE IF last.content = "Plan 5 days in Kyoto"
       THEN Answer(<<WeatherCall>>, NoId)
       ELSE AIMessage("Hello! Where would you like to go?", <<>>, NoId)

\* invoke_agent(llm, user, history) of run r up to the start of graph.invoke
RunInvoke(r, history, user) ==
    /\ runs[r].pc = "idle"
    /\ LET seeded == add_messages(<<>>, SeedMessages(history, user),
                                  runs[r].nextUuid)
       IN runs' = [runs EXCEPT ![r] =
                      Run("agent", history, user, seeded.msgs, seeded.next,
                          <<>>)]
    /\ UNCHANGED <<loopVars, cfgVars, domVars, rtVars, llmVars, dlVars,
                   searchCall>>

\* agent node of run r and the conditional edge
RunAgent(r) ==
    /\ runs[r].pc = "agent"
    /\ LET state == StateOf(runs, r)
           merged == add_messages(state.messages, <<Respond(state.messages)>>,
                                  state.nextUuid)
       IN runs' = [runs EXCEPT ![r] =
                      Run(IF should_continue(merged.msgs) = "tools"
                          THEN "tools" ELSE "end",
                          runs[r].history, runs[r].user, merged.msgs,
                          merged.next, <<>>)]
    /\ UNCHANGED <<loopVars, cfgVars, domVars, rtVars, llmVars, dlVars,
                   searchCall>>

\* tools node of run r: every call of the last message, in request order
RunTools(r) ==
    /\ runs[r].pc = "tools"
    /\ LET state == StateOf(runs, r)
           calls == state.messages[Len(state.messages)].tool_calls
           results == [i \in 1..Len(calls) |->
                          run_one(calls[i], get_settings_value).msg]
           merged == add_messages(state.messages, results, state.nextUuid)
       IN runs' = [runs EXCEPT ![r] =
                      Run("agent", runs[r].history, runs[r].user, merged.msgs,
                          merged.next, <<>>)]
    /\ settingsCache' = get_settings_cache
    /\ UNCHANGED <<environ, weatherCall>>
    /\ UNCHANGED <<loopVars, domVars, rtVars, llmVars, dlVars, searchCall>>

\* graph.invoke of run r returns, invoke_agent hands back the last message
RunReturn(r) ==
    /\ runs[r].pc = "end"
    /\ LET state == StateOf(runs, r)
       IN runs' = [runs EXCEPT ![r] =
                      Run("done", runs[r].history, runs[r].user,
                          state.messages, state.nextUuid,
                          <<FinalMessage(state.messages)>>)]
    /\ UNCHANGED <<loopVars, cfgVars, domVars, rtVars, llmVars, dlVars,
                   searchCall>>

NextRuns ==
    \/ \E r \in RunIds, history \in RunHistories, user \in RunUsers :
         RunInvoke(r, history, user)
    \/ \E r \in RunIds : RunAgent(r)
    \/ \E r \in RunIds : RunTools(r)
    \/ \E r \in RunIds : RunReturn(r)

SpecRuns == Init /\ [][NextRuns]_vars

StripIds(msgs) == [i \in 1..Len(msgs) |-> StripId(msgs[i])]

\* the messages of a run of invoke_agent(llm, user, history) that executes
\* alone, ids left out
Alone(history, user, cfg) ==
    LET seed == StripIds(SeedMessages(history, user))
        forecast == DumpDict(get_weather("Kyoto", "2025-04-01", cfg))
    IN IF user = "Plan 5 days in Kyoto"
       THEN seed \o << AIMessage("", <<WeatherCall>>, NoId),
                       ToolMessage(forecast, "get_weather", "call_1",
                                   "success"),
                       AIMessage("Forecast: " \o forecast, <<>>, NoId) >>
       ELSE seed \o << AIMessage("Hello! Where would you like to go?", <<>>,
                                 NoId) >>

\* C18: under every interleaving, the messages of each run are at every
\* moment the first messages of the run executed alone; a run that has
\* returned has all of them and has returned the last one; and a run holds
\* no user message other than its own and those of its history.
C18_NoCrossTalk ==
    \A r \in RunIds :
        runs[r].pc # "idle" =>
            LET alone == Alone(runs[r].history, runs[r].user,
                               settingsCache[1])
                mine == StripIds(runs[r].messages)
            IN /\ IsPrefix(mine, alone)
               /\ \A i \in 1..Len(mine) :
                     mine[i].type = "human" =>
                        \/ mine[i].content = runs[r].user
                        \/ \E j \in 1..Len(runs[r].history) :
                              runs[r].history[j].content = mine[i].content
               /\ runs[r].pc \in {"end", "done"} => mine = alone
               /\ runs[r].pc = "done" =>
                     /\ Len(runs[r].returned) = 1
                     /\ StripId(runs[r].returned[1]) = alone[Len(alone)]

\* a run that greets has started and returned while a run that plans was
\* waiting for its tools step
C18_Witness ==
    /\ runs[1].pc = "tools"
    /\ runs[1].user = "Plan 5 days in Kyoto"
    /\ runs[1].history # <<>>
    /\ runs[2].pc = "done"
    /\ runs[2].user = "Hello"
    /\ runs[2].returned[1].content = "Hello! Where would you like to go?"

====
